---- MODULE Spec2Model ----
(***************************************************************************)
(* paper-renamer: the Filename Builder (src/src/filename.rs), the Renamer  *)
(* (src/src/renamer.rs) and the run of main.rs with its confirmation loop. *)
(*                                                                         *)
(* A Rust String is a sequence of characters; a character is a one-letter  *)
(* TLA+ string.  Two characters outside ASCII are carried by name, because *)
(* str::to_lowercase maps one character to several: "U+0130" (capital I    *)
(* with dot above) lowercases to "i" followed by "U+0307" (combining dot   *)
(* above, which is not alphanumeric).                                      *)
(***************************************************************************)
EXTENDS Integers, Sequences, FiniteSets, TLC

VARIABLES
    pc,                 \* where run() is: "start", "extract_pdf", "ask_manual",
                        \* "extract_metadata", "confirm" (top of the loop), "exit"
    file_path,          \* args.file_path
    original_filename,  \* run's original_filename
    metadata,           \* run's metadata: None before the model answered
    proposed_filename,  \* run's proposed_filename
    files,              \* the filesystem: resolved path -> content, for regular files
    exit_code,          \* None while running, then Some(the process's exit code)
    errors,             \* what ui::display_error has printed, in order
    cancelled,          \* how many times ui::display_cancelled ran
    choices,            \* history: what the prompts of the loop returned, in order
    rename_calls,       \* history: the calls of renamer::rename_file, in order
    s_in,               \* Filename Builder harness: Some(the input string), or None
    s_out,              \* Filename Builder harness: the results so far
    m_in,               \* Filename Builder harness: Some(the metadata), or None
    m_out,              \* Filename Builder harness: generate_filename's results
    f_in,               \* Filename Builder harness: Some(the filename validated), or None
    f_valid             \* Filename Builder harness: Some(validate_filename's result)

vars == <<pc, file_path, original_filename, metadata, proposed_filename, files,
          exit_code, errors, cancelled, choices, rename_calls,
          s_in, s_out, m_in, m_out, f_in, f_valid>>

runVars == <<pc, file_path, original_filename, metadata, proposed_filename, files,
             exit_code, errors, cancelled, choices, rename_calls>>

harnessVars == <<s_in, s_out, m_in, m_out, f_in, f_valid>>

----------------------------------------------------------------------------
(* Characters *)

UpperCase == <<"A","B","C","D","E","F","G","H","I","J","K","L","M",
               "N","O","P","Q","R","S","T","U","V","W","X","Y","Z">>

LowerCase == <<"a","b","c","d","e","f","g","h","i","j","k","l","m",
               "n","o","p","q","r","s","t","u","v","w","x","y","z">>

Digits == {"0","1","2","3","4","5","6","7","8","9"}

Range(f) == {f[i] : i \in DOMAIN f}

\* the whitespace characters, as the sanitization rule is worded
is_whitespace(c) == c \in {" ", "\t", "\n"}

\* char::is_alphanumeric
is_alphanumeric(c) ==
    c \in Range(UpperCase) \cup Range(LowerCase) \cup Digits \cup {"U+0130"}

\* the lowercase mapping of one character: a string
char_to_lowercase(c) ==
    IF c \in Range(UpperCase)
    THEN <<LowerCase[CHOOSE i \in DOMAIN UpperCase : UpperCase[i] = c]>>
    ELSE IF c = "U+0130" THEN <<"i", "U+0307">>
    ELSE <<c>>

----------------------------------------------------------------------------
(* Strings *)

RECURSIVE to_lowercase(_)
\* str::to_lowercase
to_lowercase(s) ==
    IF s = <<>> THEN <<>> ELSE char_to_lowercase(Head(s)) \o to_lowercase(Tail(s))

\* str::replace(from, to) with a one-character pattern and replacement
replace(s, from, to) == [i \in 1..Len(s) |-> IF s[i] = from THEN to ELSE s[i]]

\* str::contains with a one-character pattern
contains_char(s, c) == \E i \in 1..Len(s) : s[i] = c

\* str::contains with a string pattern
contains(s, pat) ==
    \E i \in 1..(Len(s) - Len(pat) + 1) : SubSeq(s, i, i + Len(pat) - 1) = pat

\* str::ends_with
ends_with(s, suffix) ==
    /\ Len(s) >= Len(suffix)
    /\ SubSeq(s, Len(s) - Len(suffix) + 1, Len(s)) = suffix

RECURSIVE split_from(_, _, _)
split_from(s, sep, cur) ==
    IF s = <<>> THEN <<cur>>
    ELSE IF Head(s) = sep THEN <<cur>> \o split_from(Tail(s), sep, <<>>)
    ELSE split_from(Tail(s), sep, Append(cur, Head(s)))

\* str::split(sep): the pieces between the separators, empty pieces included
split(s, sep) == split_from(s, sep, <<>>)

RECURSIVE join(_, _)
\* [&str]::join(sep)
join(parts, sep) ==
    IF parts = <<>> THEN <<>>
    ELSE IF Len(parts) = 1 THEN parts[1]
    ELSE parts[1] \o <<sep>> \o join(Tail(parts), sep)

DotPdf == <<".", "p", "d", "f">>

----------------------------------------------------------------------------
(* filename.rs *)

\* the closure of sanitize's filter over chars
keep_char(c) == is_alphanumeric(c) \/ c = "-"

\* sanitize with the character filter run after the split and join
sanitize_filter_last(s) ==
    LET replaced == replace(replace(to_lowercase(s), " ", "-"), "_", "-")
        joined   == join(SelectSeq(split(replaced, "-"), LAMBDA p : p # <<>>), "-")
    IN  SelectSeq(joined, keep_char)

\* sanitize without the lowercasing
sanitize_no_lowercase(s) ==
    LET replaced == replace(replace(s, " ", "-"), "_", "-")
        filtered == SelectSeq(replaced, keep_char)
    IN  join(SelectSeq(split(filtered, "-"), LAMBDA p : p # <<>>), "-")

sanitize(s) ==
    LET lowered  == to_lowercase(s)
        replaced == replace(replace(lowered, " ", "-"), "_", "-")
        filtered == SelectSeq(replaced, keep_char)
        pieces   == SelectSeq(split(filtered, "-"), LAMBDA p : p # <<>>)
    IN  join(pieces, "-")

\* generate_filename sanitizing the three fields joined, not each on its own
generate_filename_joined(m) ==
    sanitize(m.first_author \o <<"-">> \o m.year \o <<"-">> \o m.title) \o DotPdf

generate_filename(m) ==
    LET author == sanitize(m.first_author)
        year   == sanitize(m.year)
        title  == sanitize(m.title)
    IN  author \o <<"-">> \o year \o <<"-">> \o title \o DotPdf

\* validate_filename without the check for ".."
validate_filename_no_dotdot(filename) ==
    /\ ~contains_char(filename, "/")
    /\ ~contains_char(filename, "\\")
    /\ filename # <<>>
    /\ ends_with(filename, DotPdf)

\* validate_filename without the check for a forward slash
validate_filename_no_slash(filename) ==
    /\ ~contains(filename, <<".", ".">>)
    /\ ~contains_char(filename, "\\")
    /\ filename # <<>>
    /\ ends_with(filename, DotPdf)

validate_filename(filename) ==
    /\ ~contains(filename, <<".", ".">>)
    /\ ~contains_char(filename, "/")
    /\ ~contains_char(filename, "\\")
    /\ filename # <<>>
    /\ ends_with(filename, DotPdf)

----------------------------------------------------------------------------
(* Bounds and inputs of the Filename Builder harness *)

MaxLen == 3          \* longest enumerated input of sanitize

MaxFieldLen == 2     \* longest enumerated metadata field

\* Rust's Option: None, and Some(x)
None == <<>>

Some(x) == <<x>>

\* the value of an Option that is Some
unwrap(o) == o[1]

RECURSIVE Strs(_, _)
\* every string over the alphabet of length at most n
Strs(alphabet, n) ==
    IF n = 0 THEN {<<>>}
    ELSE LET shorter == Strs(alphabet, n - 1)
         IN  shorter \cup {Append(s, c) : s \in shorter, c \in alphabet}

SanitizeAlphabet == {"A", "b", "1", " ", "\t", "\n", "_", "-", "!", "U+0130"}

FieldAlphabet == {"A", "-", "!"}

\* the inputs of test_sanitize (filename.rs:54-58)
HelloWorld == <<"H","e","l","l","o"," ","W","o","r","l","d">>

TestFileName == <<"T","e","s","t","_","F","i","l","e","-","N","a","m","e">>

SpecialChars == <<"S","p","e","c","i","a","l","!","@","#","$","%","C","h","a","r","s">>

MultipleSpaces == <<"M","u","l","t","i","p","l","e"," "," "," ","S","p","a","c","e","s">>

Vaswani == <<"V","a","s","w","a","n","i">>

\* the metadata of test_generate_filename (filename.rs:63-67)
Year2017 == <<"2","0","1","7">>

AttentionTitle == <<"A","t","t","e","n","t","i","o","n"," ","I","s"," ","A","l","l"," ",
                    "Y","o","u"," ","N","e","e","d">>

VaswaniMetadata == [first_author |-> Vaswani, year |-> Year2017, title |-> AttentionTitle]

SanitizeInputs ==
    Strs(SanitizeAlphabet, MaxLen)
        \cup {HelloWorld, TestFileName, SpecialChars, MultipleSpaces, Vaswani}

MetadataInputs ==
    [first_author : Strs(FieldAlphabet, MaxFieldLen),
     year         : Strs(FieldAlphabet, MaxFieldLen),
     title        : Strs(FieldAlphabet, MaxFieldLen)] \cup {VaswaniMetadata}

MaxStemLen == 3      \* longest enumerated stem of a filename to validate

StemAlphabet == {"a", ".", "/", "\\"}

\* how an enumerated filename ends: with the extension, without one, with a
\* piece of it, with something after it
Endings ==
    { <<>>, DotPdf, <<".", "p", "d">>, <<"p", "d", "f">>, <<".", "p", "d", "f", "a">>,
      <<".", "P", "D", "F">> }

\* the inputs of test_validate_filename (filename.rs:75-79)
ValidFilename ==
    <<"v","a","l","i","d","-","f","i","l","e","n","a","m","e",".","p","d","f">>

EtcPasswd ==
    <<".",".","/","e","t","c","/","p","a","s","s","w","d",".","p","d","f">>

PathToFile == <<"p","a","t","h","/","t","o","/","f","i","l","e",".","p","d","f">>

NoExtension == <<"n","o","-","e","x","t","e","n","s","i","o","n">>

ValidateInputs ==
    {stem \o ending : stem \in Strs(StemAlphabet, MaxStemLen), ending \in Endings}
        \cup {ValidFilename, EtcPasswd, PathToFile, <<>>, NoExtension}

----------------------------------------------------------------------------
(* The state of a run that has not started; the harness leaves it alone *)

RunIdle ==
    /\ pc = "idle"
    /\ file_path = <<>>
    /\ original_filename = <<>>
    /\ metadata = None
    /\ proposed_filename = <<>>
    /\ files = <<>>
    /\ exit_code = None
    /\ errors = <<>>
    /\ cancelled = 0
    /\ choices = <<>>
    /\ rename_calls = <<>>

HarnessIdle ==
    /\ s_in = None
    /\ s_out = <<>>
    /\ m_in = None
    /\ m_out = <<>>
    /\ f_in = None
    /\ f_valid = None

----------------------------------------------------------------------------
(* The Filename Builder harness: sanitize applied to an input and then to  *)
(* its own result; generate_filename applied twice to the same metadata;   *)
(* validate_filename applied to a filename given, or to a generated one.   *)

InitBuilder ==
    /\ RunIdle
    /\ s_out = <<>>
    /\ m_out = <<>>
    /\ f_valid = None
    /\ \/ s_in \in {Some(s) : s \in SanitizeInputs} /\ m_in = None /\ f_in = None
       \/ s_in = None /\ m_in \in {Some(m) : m \in MetadataInputs} /\ f_in = None
       \/ s_in = None /\ m_in = None /\ f_in \in {Some(f) : f \in ValidateInputs}

\* filename.rs:23 sanitize, called on the input, then on what it returned
CallSanitize ==
    /\ s_in # None
    /\ Len(s_out) < 2
    /\ s_out' = Append(s_out, sanitize(IF s_out = <<>> THEN unwrap(s_in) ELSE s_out[Len(s_out)]))
    /\ UNCHANGED <<s_in, m_in, m_out, f_in, f_valid>>
    /\ UNCHANGED runVars

\* filename.rs:9 generate_filename, called on the metadata
CallGenerateFilename ==
    /\ m_in # None
    /\ Len(m_out) < 2
    /\ m_out' = Append(m_out, generate_filename(unwrap(m_in)))
    /\ UNCHANGED <<s_in, s_out, m_in, f_in, f_valid>>
    /\ UNCHANGED runVars

\* filename.rs:40 validate_filename, called on the filename given
CallValidateFilename ==
    /\ f_in # None
    /\ f_valid = None
    /\ f_valid' = Some(validate_filename(unwrap(f_in)))
    /\ UNCHANGED <<s_in, s_out, m_in, m_out, f_in>>
    /\ UNCHANGED runVars

\* filename.rs:40 validate_filename, called on what generate_filename returned
\* (as run does with the proposed filename, main.rs:69 and 78)
ValidateGenerated ==
    /\ m_out # <<>>
    /\ f_in = None
    /\ f_in' = Some(m_out[Len(m_out)])
    /\ f_valid' = Some(validate_filename(m_out[Len(m_out)]))
    /\ UNCHANGED <<s_in, s_out, m_in, m_out>>
    /\ UNCHANGED runVars

NextBuilder ==
    CallSanitize \/ CallGenerateFilename \/ CallValidateFilename \/ ValidateGenerated

SpecBuilder == InitBuilder /\ [][NextBuilder]_vars

----------------------------------------------------------------------------
(* The sanitization rule as the specification words it, step by step *)

RECURSIVE collapse_dashes(_)
\* each run of dashes becomes one dash
collapse_dashes(s) ==
    IF Len(s) < 2 THEN s
    ELSE IF s[1] = "-" /\ s[2] = "-" THEN collapse_dashes(Tail(s))
    ELSE <<s[1]>> \o collapse_dashes(Tail(s))

RECURSIVE trim_leading_dashes(_)
trim_leading_dashes(s) ==
    IF s # <<>> /\ Head(s) = "-" THEN trim_leading_dashes(Tail(s)) ELSE s

RECURSIVE trim_trailing_dashes(_)
trim_trailing_dashes(s) ==
    IF s # <<>> /\ s[Len(s)] = "-"
    THEN trim_trailing_dashes(SubSeq(s, 1, Len(s) - 1))
    ELSE s

trim_dashes(s) == trim_trailing_dashes(trim_leading_dashes(s))

\* lowercase; every whitespace character and every underscore to a dash; drop
\* what is neither alphanumeric nor a dash; collapse runs of dashes; trim dashes
stated_rule(s) ==
    LET lowered == to_lowercase(s)
        dashed  == [i \in 1..Len(lowered) |->
                      IF is_whitespace(lowered[i]) \/ lowered[i] = "_"
                      THEN "-" ELSE lowered[i]]
        kept    == SelectSeq(dashed, LAMBDA c : is_alphanumeric(c) \/ c = "-")
    IN  trim_dashes(collapse_dashes(kept))

\* the same rule with only the space character (and the underscore) made a dash
space_rule(s) ==
    LET lowered == to_lowercase(s)
        dashed  == [i \in 1..Len(lowered) |->
                      IF lowered[i] = " " \/ lowered[i] = "_"
                      THEN "-" ELSE lowered[i]]
        kept    == SelectSeq(dashed, LAMBDA c : is_alphanumeric(c) \/ c = "-")
    IN  trim_dashes(collapse_dashes(kept))

\* the string s has been sanitized: s_out[1] is sanitize(s)
Sanitized(s) == s_in = Some(s) /\ Len(s_out) >= 1

----------------------------------------------------------------------------
(* Claims about the Filename Builder, checked under SpecBuilder *)

\* C8: sanitize is idempotent: sanitizing what sanitize returned gives it back
\* unchanged, for every input string.
C8_SanitizeIdempotent == Len(s_out) = 2 => s_out[2] = s_out[1]

\* C8 witness: an input that sanitize changed to a non-empty string has been
\* sanitized a second time.
C8_Witness ==
    /\ Len(s_out) = 2
    /\ s_out[1] # unwrap(s_in)
    /\ s_out[1] # <<>>

\* C9 as stated: sanitize returns the result of the rule in which every
\* whitespace character (space, tab, newline) becomes a dash.
C9_StatedRule == Len(s_out) >= 1 => s_out[1] = stated_rule(unwrap(s_in))

\* C9 amended: sanitize returns the result of the rule applied in order, where
\* only the space character and the underscore become a dash: lowercase; space
\* and underscore to dash; drop what is neither alphanumeric nor a dash (tab and
\* newline among it); collapse runs of dashes; trim dashes.  The three examples
\* hold, and a word boundary made of a tab or a newline vanishes.
C9_SpaceRule ==
    /\ Len(s_out) >= 1 => s_out[1] = space_rule(unwrap(s_in))
    /\ Sanitized(MultipleSpaces) =>
         s_out[1] = <<"m","u","l","t","i","p","l","e","-","s","p","a","c","e","s">>
    /\ Sanitized(SpecialChars) =>
         s_out[1] = <<"s","p","e","c","i","a","l","c","h","a","r","s">>
    /\ Sanitized(TestFileName) =>
         s_out[1] = <<"t","e","s","t","-","f","i","l","e","-","n","a","m","e">>
    /\ Sanitized(<<"A", " ", "b">>) => s_out[1] = <<"a", "-", "b">>
    /\ Sanitized(<<"A", "\t", "b">>) => s_out[1] = <<"a", "b">>
    /\ Sanitized(<<"A", "\n", "b">>) => s_out[1] = <<"a", "b">>

\* C9 witness: a string whose word boundary is a tab has been sanitized.
C9_Witness == Sanitized(<<"A", "\t", "b">>)

VaswaniFilename ==
    <<"v","a","s","w","a","n","i","-","2","0","1","7","-",
      "a","t","t","e","n","t","i","o","n","-","i","s","-","a","l","l","-",
      "y","o","u","-","n","e","e","d",".","p","d","f">>

has_pair(f, a, b) == \E i \in 1..(Len(f) - 1) : f[i] = a /\ f[i + 1] = b

\* what makes a filename rejected, as the specification lists it
rejected(f) ==
    \/ has_pair(f, ".", ".")
    \/ "/" \in Range(f)
    \/ "\\" \in Range(f)
    \/ Len(f) = 0
    \/ Len(f) < 4
    \/ <<f[Len(f) - 3], f[Len(f) - 2], f[Len(f) - 1], f[Len(f)]>> # <<".", "p", "d", "f">>

\* C11: validate_filename(f) is false for every f that contains "..", "/" or a
\* backslash, is empty or does not end with ".pdf", and true for every other
\* f; it is true for every filename generate_filename produced.
C11_ValidateFilename ==
    /\ f_valid # None => (unwrap(f_valid) <=> ~rejected(unwrap(f_in)))
    /\ (f_valid # None /\ m_out # <<>>) => unwrap(f_valid)
    /\ (f_valid # None /\ f_in = Some(ValidFilename)) => unwrap(f_valid)
    /\ (f_valid # None /\ f_in \in {Some(EtcPasswd), Some(PathToFile), Some(<<>>),
                                    Some(NoExtension)}) => ~unwrap(f_valid)

\* C11 witness: a generated filename of which two fields sanitized to nothing
\* has been validated.
C11_Witness ==
    /\ f_valid # None
    /\ m_out # <<>>
    /\ f_in = Some(m_out[1])
    /\ sanitize(unwrap(m_in).first_author) = <<>>
    /\ sanitize(unwrap(m_in).title) = <<>>
    /\ sanitize(unwrap(m_in).year) # <<>>

\* a filename with ".." in it and nothing else against it has been validated
C11_WitnessRejected ==
    /\ f_valid = Some(FALSE)
    /\ f_in = Some(<<"a", ".", ".">> \o DotPdf)

----------------------------------------------------------------------------
(* std::path::Path and the filesystem under renamer.rs *)

\* A Path is whether it starts at the root, and its components.  Repeated
\* separators and "." components carry no meaning and are dropped, as
\* Path::components does; ".." is kept.
path_of(s) ==
    [root  |-> s # <<>> /\ s[1] = "/",
     comps |-> SelectSeq(split(s, "/"), LAMBDA c : c # <<>> /\ c # <<".">>)]

\* Path::parent: the path without its last component
path_parent(p) ==
    IF p.comps = <<>> THEN None
    ELSE Some([root |-> p.root, comps |-> SubSeq(p.comps, 1, Len(p.comps) - 1)])

\* Path::file_name: the last component, unless it is ".."
path_file_name(p) ==
    IF p.comps = <<>> \/ p.comps[Len(p.comps)] = <<".", ".">> THEN None
    ELSE Some(p.comps[Len(p.comps)])

\* Path::join: an absolute argument replaces the path
path_join(p, s) ==
    LET q == path_of(s)
    IN  IF q.root THEN q ELSE [root |-> p.root, comps |-> p.comps \o q.comps]

\* the process's working directory, and the directories that exist
Cwd == << <<"w">> >>

Dirs == { <<>>, Cwd, Cwd \o << <<"d">> >> }

RECURSIVE walk(_, _)
walk(at, comps) ==
    IF comps = <<>> THEN at
    ELSE IF Head(comps) = <<".", ".">>
         THEN walk(IF at = <<>> THEN at ELSE SubSeq(at, 1, Len(at) - 1), Tail(comps))
         ELSE walk(Append(at, Head(comps)), Tail(comps))

\* where the operating system finds the path: the components from the root
resolve(p) == walk(IF p.root THEN <<>> ELSE Cwd, p.comps)

\* the directory that holds a resolved path
dir_of(r) == SubSeq(r, 1, Len(r) - 1)

\* Path::exists and Path::is_file, on the filesystem fs
path_exists(fs, p) == resolve(p) \in DOMAIN fs \/ resolve(p) \in Dirs

path_is_file(fs, p) == resolve(p) \in DOMAIN fs

\* std::fs::rename(from, to) on fs, when the operating system performs it:
\* an existing regular file at `to` is replaced
fs_rename(fs, from, to) ==
    [r \in (DOMAIN fs \ {from}) \cup {to} |-> IF r = to THEN fs[from] ELSE fs[r]]

\* whether the operating system can perform the rename at all
fs_rename_possible(fs, from, to) ==
    /\ from \in DOMAIN fs
    /\ to # <<>>
    /\ dir_of(to) \in Dirs
    /\ to \notin Dirs

----------------------------------------------------------------------------
(* renamer.rs *)

ErrNotExist == "Original file does not exist"

ErrNotFile == "Path is not a file"

ErrNoParent == "Failed to get parent directory"

ErrTargetExists == "Target file already exists"

ErrRename == "Failed to rename file"

rename_err(fs, at, msg) == [ok |-> FALSE, error |-> msg, new_path |-> at, fs |-> fs]

\* rename_file without the check that the target exists
rename_file_overwrites(fs, original_path, new_filename, io_ok) ==
    LET original == path_of(original_path)
        parent   == path_parent(original)
        new_path == resolve(path_join(unwrap(parent), new_filename))
    IN  IF ~path_exists(fs, original) THEN rename_err(fs, None, ErrNotExist)
        ELSE IF ~path_is_file(fs, original) THEN rename_err(fs, None, ErrNotFile)
        ELSE IF parent = None THEN rename_err(fs, None, ErrNoParent)
        ELSE IF ~(io_ok /\ fs_rename_possible(fs, resolve(original), new_path))
             THEN rename_err(fs, Some(new_path), ErrRename)
        ELSE [ok |-> TRUE, error |-> "", new_path |-> Some(new_path),
              fs |-> fs_rename(fs, resolve(original), new_path)]

\* rename_file(original_path, new_filename) on the filesystem fs; io_ok is
\* whether the operating system lets fs::rename through.  The result: ok, the
\* error message, Some(where new_path resolves) once it is computed, and the
\* filesystem afterwards.
rename_file(fs, original_path, new_filename, io_ok) ==
    LET original == path_of(original_path)
        parent   == path_parent(original)
        new_path == path_join(unwrap(parent), new_filename)
    IN  IF ~path_exists(fs, original) THEN rename_err(fs, None, ErrNotExist)
        ELSE IF ~path_is_file(fs, original) THEN rename_err(fs, None, ErrNotFile)
        ELSE IF parent = None THEN rename_err(fs, None, ErrNoParent)
        ELSE IF path_exists(fs, new_path)
             THEN rename_err(fs, Some(resolve(new_path)), ErrTargetExists)
        ELSE IF ~(io_ok /\ fs_rename_possible(fs, resolve(original), resolve(new_path)))
             THEN rename_err(fs, Some(resolve(new_path)), ErrRename)
        ELSE [ok |-> TRUE, error |-> "", new_path |-> Some(resolve(new_path)),
              fs |-> fs_rename(fs, resolve(original), resolve(new_path))]

\* get_filename: the path's file name (a String is always valid UTF-8)
get_filename(path) == path_file_name(path_of(path))

----------------------------------------------------------------------------
(* Bounds and inputs of a run *)

MaxChoices == 3      \* how many times the loop's prompt is answered

APdf == <<"a", ".", "p", "d", "f">>

BPdf == <<"b", ".", "p", "d", "f">>

CPdf == <<"c", ".", "p", "d", "f">>

\* args.file_path: in the working directory, in a subdirectory, and not a PDF
FilePaths == { APdf, <<"d", "/">> \o APdf, <<"a", ".", "t", "x", "t">> }

\* the filesystem at the start: with the papers and their neighbours, and
\* with no paper at either path
Filesystems ==
    { (Cwd \o <<APdf>>                :> "paper")   @@
      (Cwd \o <<BPdf>>                :> "other")   @@
      (Cwd \o << <<"d">>, APdf >>     :> "paper")   @@
      (Cwd \o << <<"d">>, BPdf >>     :> "other"),
      (Cwd \o <<BPdf>>                :> "other") }

\* what the model service can answer with: metadata, complete or not
Smith == [first_author |-> <<"S","m","i","t","h">>, year |-> <<"2","0","2","0">>,
          title |-> <<"D","e","e","p"," ","L","e","a","r","n","i","n","g">>]

NoYear == [first_author |-> <<"S","m","i","t","h">>, year |-> <<>>,
           title |-> <<"D","e","e","p"," ","L","e","a","r","n","i","n","g">>]

\* metadata of which only the author survives sanitize
OnlyAuthor == [first_author |-> <<"B">>, year |-> <<"!">>, title |-> <<"?">>]

RequestFailures == {"send failed", "error status", "bad response", "bad json"}

\* the outcomes of the request to the model service
ModelAnswers ==
    {[kind |-> k, value |-> None] : k \in RequestFailures}
        \cup {[kind |-> "metadata", value |-> Some(m)] : m \in {Smith, NoYear, OnlyAuthor}}

\* what the user can type at edit_filename's prompt (never empty)
EditInputs ==
    { CPdf,                                      \* a free name
      BPdf,                                      \* a name that is taken
      <<"c">>,                                   \* no extension
      <<"C", " ", "x", ".", "p", "d", "f">>,     \* not a sanitized name
      <<".", ".", "/">> \o CPdf,                 \* the parent directory
      <<"d", "/">> \o CPdf,                      \* a subdirectory
      <<"c", "\\">> \o CPdf }                    \* a backslash

----------------------------------------------------------------------------
(* ui.rs and main.rs *)

ErrNotPdf == "File must be a PDF (*.pdf)"

ErrNoFilename == "Failed to get filename from path"

ErrExtract == "Failed to extract text from PDF"

ErrNoText == "No text could be extracted from the PDF. The file may be a scanned image."

ErrManual == "Manual metadata entry not available"

ErrLlm == "Failed to extract metadata using LLM"

ErrInvalid == "Invalid filename. Please try again."

ErrPrompt == "IO error"

\* ui::UserChoice
UserChoice == {"Yes", "No", "Edit", "EditAuthor", "EditYear", "EditTitle"}

\* ui::display_error
display_error(msg) == errors' = Append(errors, msg)

\* ui::display_cancelled
display_cancelled == cancelled' = cancelled + 1

\* main with the exit code 0 when run() returned Err
main_err_exit_0(msg) ==
    /\ display_error(msg)
    /\ exit_code' = Some(0)
    /\ pc' = "exit"

\* main, when run() returned Err(msg): display_error and exit(1)
main_err(msg) ==
    /\ display_error(msg)
    /\ exit_code' = Some(1)
    /\ pc' = "exit"

\* main, when run() returned Ok(())
main_ok ==
    /\ exit_code' = Some(0)
    /\ pc' = "exit"

\* what the loop's prompts returned in one turn: confirm_rename's choice
\* ("Err" when it failed) and, for Edit, Some(what edit_filename returned) or
\* None when that prompt failed
Turn(choice, input) == [choice |-> choice, input |-> input]

Init ==
    /\ HarnessIdle
    /\ pc = "start"
    /\ file_path \in FilePaths
    /\ files \in Filesystems
    /\ original_filename = <<>>
    /\ metadata = None
    /\ proposed_filename = <<>>
    /\ exit_code = None
    /\ errors = <<>>
    /\ cancelled = 0
    /\ choices = <<>>
    /\ rename_calls = <<>>

\* run, main.rs:31-38: the argument must end with .pdf; take its file name
CheckArgs ==
    /\ pc = "start"
    /\ IF ~ends_with(file_path, DotPdf)
       THEN main_err(ErrNotPdf) /\ UNCHANGED original_filename
       ELSE IF get_filename(file_path) = None
       THEN main_err(ErrNoFilename) /\ UNCHANGED original_filename
       ELSE /\ original_filename' = unwrap(get_filename(file_path))
            /\ pc' = "extract_pdf"
            /\ UNCHANGED <<exit_code, errors>>
    /\ UNCHANGED <<file_path, metadata, proposed_filename, files, cancelled,
                   choices, rename_calls>>
    /\ UNCHANGED harnessVars

\* pdf::extract_pdf_text: Ok, or the error; a path that is no file cannot be read
extract_pdf_text(fs, path, outcome) ==
    IF ~path_is_file(fs, path_of(path)) \/ outcome = "unreadable" THEN ErrExtract
    ELSE IF outcome = "blank" THEN ErrNoText
    ELSE "Ok"

\* run, main.rs:43-58, up to the question: extract the text; on an error show
\* it and go on to ask about manual entry
ExtractPdfText ==
    /\ pc = "extract_pdf"
    /\ \E outcome \in {"text", "unreadable", "blank"} :
         LET r == extract_pdf_text(files, file_path, outcome)
         IN  IF r = "Ok"
             THEN pc' = "extract_metadata" /\ UNCHANGED errors
             ELSE display_error(r) /\ pc' = "ask_manual"
    /\ UNCHANGED <<file_path, original_filename, metadata, proposed_filename, files,
                   exit_code, cancelled, choices, rename_calls>>
    /\ UNCHANGED harnessVars

\* run, main.rs:49-56: ask_manual_metadata()?, then bail or cancel
AskManualMetadata ==
    /\ pc = "ask_manual"
    /\ \E answer \in {"Err", "true", "false"} :
         IF answer = "Err" THEN main_err(ErrPrompt) /\ UNCHANGED cancelled
         ELSE IF answer = "true" THEN main_err(ErrManual) /\ UNCHANGED cancelled
         ELSE display_cancelled /\ main_ok /\ UNCHANGED errors
    /\ UNCHANGED <<file_path, original_filename, metadata, proposed_filename, files,
                   choices, rename_calls>>
    /\ UNCHANGED harnessVars

\* llm::extract_metadata_with_ollama on the service's answer: a failure of the
\* request, of the status, of either JSON parse, or metadata, which must have
\* no empty field
extract_metadata_with_ollama(answer) ==
    IF answer.kind \in RequestFailures THEN None
    ELSE LET m == unwrap(answer.value)
         IN  IF m.first_author = <<>> \/ m.year = <<>> \/ m.title = <<>>
             THEN None
             ELSE Some(m)

\* run, main.rs:61-69: the metadata from the model, then the proposed filename
ExtractMetadata ==
    /\ pc = "extract_metadata"
    /\ \E answer \in ModelAnswers :
         LET r == extract_metadata_with_ollama(answer)
         IN  IF r = None
             THEN main_err(ErrLlm) /\ UNCHANGED <<metadata, proposed_filename>>
             ELSE /\ metadata' = r
                  /\ proposed_filename' = generate_filename(unwrap(r))
                  /\ pc' = "confirm"
                  /\ UNCHANGED <<exit_code, errors>>
    /\ UNCHANGED <<file_path, original_filename, files, cancelled, choices, rename_calls>>
    /\ UNCHANGED harnessVars

\* the frame of a turn of the loop
LoopFrame == UNCHANGED <<file_path, original_filename, metadata>> /\ UNCHANGED harnessVars

\* the record of a call of rename_file, from its arguments and its result
RenameCall(new_filename, r) ==
    [original_path |-> file_path, new_filename |-> new_filename,
     ok |-> r.ok, error |-> r.error, new_path |-> r.new_path]

\* run, main.rs:73: confirm_rename(..)? fails, and run returns the error
ConfirmFails ==
    /\ pc = "confirm"
    /\ Len(choices) < MaxChoices
    /\ choices' = Append(choices, Turn("Err", None))
    /\ main_err(ErrPrompt)
    /\ UNCHANGED <<proposed_filename, files, cancelled, rename_calls>>
    /\ LoopFrame

\* the Yes arm calling rename_file on whatever the proposed filename is
ChooseYes_unvalidated ==
    /\ pc = "confirm"
    /\ Len(choices) < MaxChoices
    /\ choices' = Append(choices, Turn("Yes", None))
    /\ \E io_ok \in BOOLEAN :
         LET r == rename_file(files, file_path, proposed_filename, io_ok)
         IN  /\ rename_calls' = Append(rename_calls, RenameCall(proposed_filename, r))
             /\ files' = r.fs
             /\ IF r.ok THEN main_ok /\ UNCHANGED errors ELSE main_err(ErrRename)
    /\ UNCHANGED <<proposed_filename, cancelled>>
    /\ LoopFrame

\* the Yes arm without its break: after a rename the loop comes round again
ChooseYes_continues ==
    /\ pc = "confirm"
    /\ Len(choices) < MaxChoices
    /\ choices' = Append(choices, Turn("Yes", None))
    /\ IF ~validate_filename(proposed_filename)
       THEN /\ display_error(ErrInvalid)
            /\ UNCHANGED <<pc, exit_code, files, rename_calls>>
       ELSE \E io_ok \in BOOLEAN :
              LET r == rename_file(files, file_path, proposed_filename, io_ok)
              IN  /\ rename_calls' = Append(rename_calls, RenameCall(proposed_filename, r))
                  /\ files' = r.fs
                  /\ IF r.ok THEN UNCHANGED <<pc, exit_code, errors>>
                     ELSE main_err(ErrRename)
    /\ UNCHANGED <<proposed_filename, cancelled>>
    /\ LoopFrame

\* run, main.rs:76-89: UserChoice::Yes
ChooseYes ==
    /\ pc = "confirm"
    /\ Len(choices) < MaxChoices
    /\ choices' = Append(choices, Turn("Yes", None))
    /\ IF ~validate_filename(proposed_filename)
       THEN /\ display_error(ErrInvalid)
            /\ UNCHANGED <<pc, exit_code, files, rename_calls>>
       ELSE \E io_ok \in BOOLEAN :
              LET r == rename_file(files, file_path, proposed_filename, io_ok)
              IN  /\ rename_calls' = Append(rename_calls, RenameCall(proposed_filename, r))
                  /\ files' = r.fs
                  /\ IF r.ok THEN main_ok /\ UNCHANGED errors ELSE main_err(ErrRename)
    /\ UNCHANGED <<proposed_filename, cancelled>>
    /\ LoopFrame

\* run, main.rs:90-93: UserChoice::No
ChooseNo ==
    /\ pc = "confirm"
    /\ Len(choices) < MaxChoices
    /\ choices' = Append(choices, Turn("No", None))
    /\ display_cancelled
    /\ main_ok
    /\ UNCHANGED <<proposed_filename, files, errors, rename_calls>>
    /\ LoopFrame

\* the Edit arm leaving the loop once the filename is edited
ChooseEdit_breaks ==
    /\ pc = "confirm"
    /\ Len(choices) < MaxChoices
    /\ \E edited \in EditInputs :
         /\ choices' = Append(choices, Turn("Edit", Some(edited)))
         /\ proposed_filename' =
              IF ends_with(edited, DotPdf) THEN edited ELSE edited \o DotPdf
         /\ main_ok
         /\ UNCHANGED errors
    /\ UNCHANGED <<files, cancelled, rename_calls>>
    /\ LoopFrame

\* the Edit arm dropping what the user typed
ChooseEdit_discards ==
    /\ pc = "confirm"
    /\ Len(choices) < MaxChoices
    /\ \E edited \in EditInputs :
         /\ choices' = Append(choices, Turn("Edit", Some(edited)))
         /\ UNCHANGED <<proposed_filename, pc, exit_code, errors>>
    /\ UNCHANGED <<files, cancelled, rename_calls>>
    /\ LoopFrame

\* run, main.rs:94-102: UserChoice::Edit; edit_filename(..)? may fail
ChooseEdit ==
    /\ pc = "confirm"
    /\ Len(choices) < MaxChoices
    /\ \/ /\ choices' = Append(choices, Turn("Edit", None))
          /\ main_err(ErrPrompt)
          /\ UNCHANGED proposed_filename
       \/ \E edited \in EditInputs :
            /\ choices' = Append(choices, Turn("Edit", Some(edited)))
            /\ proposed_filename' =
                 IF ends_with(edited, DotPdf) THEN edited ELSE edited \o DotPdf
            /\ UNCHANGED <<pc, exit_code, errors>>
    /\ UNCHANGED <<files, cancelled, rename_calls>>
    /\ LoopFrame

\* run, main.rs:75-103: the match has no arm for EditAuthor, EditYear or
\* EditTitle, so no statement runs for them and the loop comes round again
ChooseEditField ==
    /\ pc = "confirm"
    /\ Len(choices) < MaxChoices
    /\ \E choice \in {"EditAuthor", "EditYear", "EditTitle"} :
         choices' = Append(choices, Turn(choice, None))
    /\ UNCHANGED <<pc, proposed_filename, files, exit_code, errors, cancelled,
                   rename_calls>>
    /\ LoopFrame

Next ==
    \/ CheckArgs
    \/ ExtractPdfText
    \/ AskManualMetadata
    \/ ExtractMetadata
    \/ ConfirmFails
    \/ ChooseYes
    \/ ChooseNo
    \/ ChooseEdit
    \/ ChooseEditField

Spec == Init /\ [][Next]_vars

----------------------------------------------------------------------------
(* Claims about a run, checked under Spec *)

Last(seq) == seq[Len(seq)]

\* this step is a turn of the loop in which confirm_rename returned `choice`
Answers(choice) ==
    /\ pc = "confirm"
    /\ choices' # choices
    /\ Last(choices').choice = choice

\* this step is a turn in which the filename was edited: Edit, and
\* edit_filename returned a value
EditsFilename == Answers("Edit") /\ Last(choices').input # None

\* this step is a turn in which a prompt of the loop failed
PromptFails ==
    \/ Answers("Err")
    \/ Answers("Edit") /\ Last(choices').input = None

\* this step is a turn in which the user accepted a name that is not valid
AcceptsInvalid == Answers("Yes") /\ ~validate_filename(proposed_filename)

\* the loop comes round: the same prompt again, the run still going
BackToProposed == pc' = "confirm" /\ exit_code' = None

\* the directory of the source path
SourceDir == resolve(unwrap(path_parent(path_of(file_path))))

\* C1: whenever the user chooses Yes the proposed filename is validated before
\* rename_file is called: rename_file is never called with a filename that
\* validate_filename rejects, a valid one is passed to rename_file as it is, and
\* on an invalid one the loop shows the error and prompts again with the same
\* filename, the run neither ending nor cancelled.
C1_ValidatedBeforeRename ==
    /\ [](\A i \in DOMAIN rename_calls :
            validate_filename(rename_calls[i].new_filename))
    /\ [][AcceptsInvalid =>
            /\ BackToProposed
            /\ proposed_filename' = proposed_filename
            /\ errors' = Append(errors, ErrInvalid)
            /\ rename_calls' = rename_calls
            /\ files' = files
            /\ cancelled' = cancelled]_vars
    /\ [][(Answers("Yes") /\ validate_filename(proposed_filename)) =>
            /\ Len(rename_calls') = Len(rename_calls) + 1
            /\ Last(rename_calls').new_filename = proposed_filename]_vars

\* C1 witness: the user accepted an invalid name, the error is on screen and
\* the loop is at its prompt again.
C1_Witness ==
    /\ pc = "confirm"
    /\ choices # <<>> /\ Last(choices).choice = "Yes"
    /\ errors # <<>> /\ Last(errors) = ErrInvalid
    /\ ~validate_filename(proposed_filename)

C3_RefusesExistingTarget ==
    [][(/\ Len(rename_calls') = Len(rename_calls) + 1
        /\ Last(rename_calls').new_path # None
        /\ \/ unwrap(Last(rename_calls').new_path) \in DOMAIN files
           \/ unwrap(Last(rename_calls').new_path) \in Dirs)
       => /\ ~Last(rename_calls').ok
          /\ Last(rename_calls').error = ErrTargetExists
          /\ files' = files
          /\ exit_code' = Some(1)]_vars

\* C3 witness: rename_file has refused a taken name; the source and the file
\* that holds the name are both still there, with their contents.
C3_Witness ==
    /\ rename_calls # <<>>
    /\ Last(rename_calls).error = ErrTargetExists
    /\ files[resolve(path_of(file_path))] = "paper"
    /\ files[unwrap(Last(rename_calls).new_path)] = "other"

\* the name the Builder makes of an edited whole filename: its stem sanitized
builder_name(edited) ==
    LET stem == IF ends_with(edited, DotPdf)
                THEN SubSeq(edited, 1, Len(edited) - Len(DotPdf)) ELSE edited
    IN  sanitize(stem) \o DotPdf

\* the metadata with the field a choice edits set to a value
with_field(m, choice, value) ==
    IF choice = "EditAuthor" THEN [m EXCEPT !.first_author = value]
    ELSE IF choice = "EditYear" THEN [m EXCEPT !.year = value]
    ELSE [m EXCEPT !.title = value]

\* C4 as stated: after each of the four edit intents (whole filename, author,
\* year, title) the loop is back at Proposed with a filename the Filename
\* Builder recomputed from the edited value.
C4_EditsRecompute ==
    [][/\ EditsFilename =>
            /\ BackToProposed
            /\ proposed_filename' = builder_name(unwrap(Last(choices').input))
       /\ (\E c \in {"EditAuthor", "EditYear", "EditTitle"} : Answers(c)) =>
            /\ BackToProposed
            /\ Last(choices').input # None
            /\ proposed_filename' =
                 generate_filename(with_field(unwrap(metadata), Last(choices').choice,
                                              unwrap(Last(choices').input)))]_vars

\* C5 as stated: the loop is left only through Yes or No.
C5_OnlyAcceptOrCancel ==
    [][(pc = "confirm" /\ pc' # "confirm") =>
          (choices' # choices /\ Last(choices').choice \in {"Yes", "No"})]_vars

\* C5 amended: the loop comes round after every completed edit and after every
\* failed validation, and it is left only through Yes on a valid name, through
\* No, or through a prompt (confirm_rename, edit_filename) that fails, which
\* ends the run with exit code 1.
C5_LoopExits ==
    [][/\ (pc = "confirm" /\ pc' # "confirm") =>
            \/ Answers("Yes") /\ validate_filename(proposed_filename)
            \/ Answers("No")
            \/ PromptFails /\ exit_code' = Some(1)
       /\ EditsFilename => BackToProposed
       /\ (\E c \in {"EditAuthor", "EditYear", "EditTitle"} : Answers(c)) => BackToProposed
       /\ AcceptsInvalid => BackToProposed]_vars

\* C5 witness: after an edit and a failed validation the loop is at its prompt.
C5_Witness ==
    /\ pc = "confirm"
    /\ Len(choices) = 2
    /\ choices[1].choice = "Edit" /\ choices[1].input # None
    /\ choices[2].choice = "Yes"
    /\ Last(errors) = ErrInvalid

\* the prompts returned edit (e1), edit (e2), accept, in that order
Script(e1, e2) ==
    choices = <<Turn("Edit", Some(e1)), Turn("Edit", Some(e2)), Turn("Yes", None)>>

\* C6 as stated: after edit, edit, accept the loop has ended in Accepted and
\* rename_file was called with the value entered in the second edit.
C6_ScriptAccepted ==
    \A e1, e2 \in EditInputs :
        Script(e1, e2) =>
            /\ pc = "exit"
            /\ Len(rename_calls) = 1
            /\ rename_calls[1].new_filename = e2

\* C6 amended: after edit, edit, accept the filename is the second edit's value
\* with ".pdf" appended when it lacked it; if validate_filename accepts that
\* name the loop has ended in Accepted with rename_file called once, on exactly
\* that name; if not, nothing was renamed, the error is shown and the loop is
\* at its prompt again.
C6_ScriptFinalName ==
    \A e1, e2 \in EditInputs :
        Script(e1, e2) =>
            LET final == IF ends_with(e2, DotPdf) THEN e2 ELSE e2 \o DotPdf
            IN  /\ proposed_filename = final
                /\ IF validate_filename(final)
                   THEN /\ pc = "exit"
                        /\ Len(rename_calls) = 1
                        /\ rename_calls[1].new_filename = final
                        /\ rename_calls[1].ok <=> exit_code = Some(0)
                   ELSE /\ pc = "confirm"
                        /\ rename_calls = <<>>
                        /\ Last(errors) = ErrInvalid

\* C6 witness: two different names were typed, the second was accepted and the
\* file carries it.
C6_Witness ==
    /\ Script(BPdf, CPdf)
    /\ rename_calls # <<>> /\ Last(rename_calls).ok
    /\ SourceDir \o <<CPdf>> \in DOMAIN files

\* the errors after which run() goes on
ExtractErrors == {ErrExtract, ErrNoText}

C12_SingleShot ==
    /\ [](Len(rename_calls) <= 1)
    /\ [](rename_calls # <<>> =>
            /\ pc = "exit"
            /\ choices # <<>> /\ Last(choices).choice = "Yes")
    /\ [][rename_calls' # rename_calls =>
            /\ Answers("Yes")
            /\ rename_calls = <<>>
            /\ pc' = "exit"]_vars
    /\ [][files' # files =>
            /\ rename_calls' # rename_calls
            /\ Last(rename_calls').ok
            /\ files' = fs_rename(files, resolve(path_of(file_path)),
                                  unwrap(Last(rename_calls').new_path))]_vars
    /\ [][Answers("No") =>
            /\ pc' = "exit"
            /\ exit_code' = Some(0)
            /\ cancelled' = cancelled + 1
            /\ rename_calls = <<>> /\ rename_calls' = <<>>
            /\ files' = files]_vars
    /\ []((pc = "exit" /\ choices # <<>> /\ Last(choices).choice = "No") =>
            /\ rename_calls = <<>>
            /\ files \in Filesystems
            /\ resolve(path_of(file_path)) \in DOMAIN files
            /\ files[resolve(path_of(file_path))] = "paper")

\* C12 witness: the user edited the name, had a name refused, then cancelled:
\* nothing was renamed and the paper is where it was.
C12_Witness ==
    /\ pc = "exit"
    /\ Len(choices) = MaxChoices
    /\ choices[1].choice = "Edit" /\ choices[1].input # None
    /\ choices[2].choice = "Yes"
    /\ Last(choices).choice = "No"
    /\ cancelled = 1
    /\ rename_calls = <<>>
    /\ files[resolve(path_of(file_path))] = "paper"

====
